---------------------------- MODULE Spec2Model ----------------------------
(***************************************************************************)
(* Model of extract_append.py (class DataExtractor): the pattern           *)
(* extractors, the filename timestamp parser, the history store            *)
(* (load / save / append / summary) and the batch driver.                  *)
(*                                                                         *)
(* Text is modelled as sequences of one-character strings.  A snapshot's   *)
(* HTML is modelled as a sequence of markup elements (see "Snapshots").    *)
(***************************************************************************)
EXTENDS Integers, Sequences, FiniteSets, TLC

VARIABLES
    html_cache,   \* the *.html files of self.html_cache_dir: a set of [name, content]
    output_file,  \* the persisted history file (self.output_file)
    pc,           \* position of the running operation
    todo,         \* process_all_html_files: files of sorted(html_files) not yet started
    processed,    \* process_all_html_files: the local counter `processed`
    printed,      \* what display_summary has written to stdout (None: nothing)
    arg,          \* the input of the operation being applied
    ret,          \* the outcome of the last operation applied
    store0,       \* history: the persisted file as it was before the run
    merged,       \* history: the entries append_data has merged and saved, in order
    last,         \* history: (date, platform) -> count of the most recent append_data
    inst          \* append_data in flight: per running instance, its position and locals

vars == <<html_cache, output_file, pc, todo, processed, printed, arg, ret,
          store0, merged, last, inst>>

None == "None"

NoOutput == [kind |-> "None"]

\* no append_data call is in flight
NoInstances == <<>>

(***************************************************************************)
(* Characters and strings                                                  *)
(***************************************************************************)
DigitChars == <<"0", "1", "2", "3", "4", "5", "6", "7", "8", "9">>

UpperChars == <<"A", "B", "C", "D", "E", "F", "G", "H", "I", "J", "K", "L", "M",
                "N", "O", "P", "Q", "R", "S", "T", "U", "V", "W", "X", "Y", "Z">>

LowerChars == <<"a", "b", "c", "d", "e", "f", "g", "h", "i", "j", "k", "l", "m",
                "n", "o", "p", "q", "r", "s", "t", "u", "v", "w", "x", "y", "z">>

\* The characters of the model in code point order (what str comparison uses).
CodePoints == <<"-", ".">> \o DigitChars \o <<":">> \o UpperChars \o <<"_">> \o LowerChars

Range(s) == {s[i] : i \in DOMAIN s}

IsDigit(c) == c \in Range(DigitChars)

DigitVal(c) == (CHOOSE i \in DOMAIN DigitChars : DigitChars[i] = c) - 1

Ord(c) == CHOOSE i \in DOMAIN CodePoints : CodePoints[i] = c

\* str.lower() on one character
LowerChar(c) ==
    IF c \in Range(UpperChars)
    THEN LowerChars[CHOOSE i \in DOMAIN UpperChars : UpperChars[i] = c]
    ELSE c

\* str.lower()
Lower(s) == [i \in DOMAIN s |-> LowerChar(s[i])]

\* `t in s` for strings
Contains(s, t) ==
    \E i \in 1..(Len(s) - Len(t) + 1) : SubSeq(s, i, i + Len(t) - 1) = t

\* s < t for strings: by the code points at the first difference, a proper
\* prefix first
StrLess(s, t) ==
    LET n    == IF Len(s) < Len(t) THEN Len(s) ELSE Len(t)
        diff == {i \in 1..n : s[i] # t[i]}
    IN  IF diff = {} THEN Len(s) < Len(t)
        ELSE LET i == CHOOSE i \in diff : \A j \in diff : i <= j
             IN  Ord(s[i]) < Ord(t[i])

\* \d+ : a non-empty run of decimal digits
AllDigits(s) == Len(s) > 0 /\ \A i \in DOMAIN s : IsDigit(s[i])

\* int(s) for a digit run s
RECURSIVE ToInt(_)
ToInt(s) ==
    IF Len(s) = 0 THEN 0
    ELSE 10 * ToInt(SubSeq(s, 1, Len(s) - 1)) + DigitVal(s[Len(s)])

\* n written with at least w decimal digits, zero padded (the %04d / %02d of isoformat)
RECURSIVE ZeroPad(_, _)
ZeroPad(n, w) ==
    IF w <= 1 /\ n < 10 THEN <<DigitChars[n + 1]>>
    ELSE ZeroPad(n \div 10, w - 1) \o <<DigitChars[(n % 10) + 1]>>

(***************************************************************************)
(* Timestamps: extract_timestamp_from_filename                             *)
(***************************************************************************)
DateDigits == 8
TimeDigits == 6

\* the mutation of the pattern that takes any non-digit character between the
\* two digit runs
TimestampMatchAt_anyDelimiter(s, i) ==
    /\ i + DateDigits + TimeDigits <= Len(s)
    /\ \A k \in 0..(DateDigits - 1) : IsDigit(s[i + k])
    /\ ~IsDigit(s[i + DateDigits])
    /\ \A k \in 1..TimeDigits : IsDigit(s[i + DateDigits + k])

\* the regular expression (\d{8})_(\d{6}) matching at position i of s
TimestampMatchAt(s, i) ==
    /\ i + DateDigits + TimeDigits <= Len(s)
    /\ \A k \in 0..(DateDigits - 1) : IsDigit(s[i + k])
    /\ s[i + DateDigits] = "_"
    /\ \A k \in 1..TimeDigits : IsDigit(s[i + DateDigits + k])

IsLeap(y) == (y % 4 = 0 /\ y % 100 # 0) \/ y % 400 = 0

DaysInMonth(y, m) ==
    IF m = 2 THEN (IF IsLeap(y) THEN 29 ELSE 28)
    ELSE IF m \in {4, 6, 9, 11} THEN 30 ELSE 31

\* datetime.strptime(f"{date_str}_{time_str}", "%Y%m%d_%H%M%S"): the datetime, or
\* raised |-> TRUE for the ValueError of digits that are no calendar date and time
strptime(date_str, time_str) ==
    LET y  == ToInt(SubSeq(date_str, 1, 4))
        mo == ToInt(SubSeq(date_str, 5, 6))
        d  == ToInt(SubSeq(date_str, 7, 8))
        h  == ToInt(SubSeq(time_str, 1, 2))
        mi == ToInt(SubSeq(time_str, 3, 4))
        s  == ToInt(SubSeq(time_str, 5, 6))
        ok == /\ y >= 1
              /\ mo \in 1..12
              /\ d >= 1 /\ d <= DaysInMonth(y, mo)
              /\ h <= 23 /\ mi <= 59 /\ s <= 59
    IN  IF ok
        THEN [raised |-> FALSE,
              value |-> [year |-> y, month |-> mo, day |-> d, hour |-> h,
                         minute |-> mi, second |-> s, microsecond |-> 0]]
        ELSE [raised |-> TRUE, value |-> "ValueError"]

\* datetime.isoformat()
isoformat(dt) ==
    ZeroPad(dt.year, 4) \o <<"-">> \o ZeroPad(dt.month, 2) \o <<"-">> \o ZeroPad(dt.day, 2)
    \o <<"T">> \o ZeroPad(dt.hour, 2) \o <<":">> \o ZeroPad(dt.minute, 2)
    \o <<":">> \o ZeroPad(dt.second, 2)
    \o (IF dt.microsecond = 0 THEN <<>> ELSE <<".">> \o ZeroPad(dt.microsecond, 6))

\* the positions at which re.search may report the match: the leftmost one
TimestampSearch(filename) ==
    LET hits == {i \in 1..Len(filename) : TimestampMatchAt(filename, i)}
    IN  IF hits = {} THEN 0 ELSE CHOOSE i \in hits : \A j \in hits : i <= j

\* extract_timestamp_from_filename(filename), with now = datetime.now()
extract_timestamp_from_filename(filename, now) ==
    LET i == TimestampSearch(filename)
    IN  IF i # 0
        THEN LET date_str == SubSeq(filename, i, i + DateDigits - 1)
                 time_str == SubSeq(filename, i + DateDigits + 1,
                                    i + DateDigits + TimeDigits)
                 dt       == strptime(date_str, time_str)
             IN  IF dt.raised THEN dt
                 ELSE [raised |-> FALSE, value |-> isoformat(dt.value)]
        ELSE [raised |-> FALSE, value |-> isoformat(now)]

\* timestamp.split('T')[0]
SplitT0(timestamp) ==
    LET ts == {i \in DOMAIN timestamp : timestamp[i] = "T"}
    IN  IF ts = {} THEN timestamp
        ELSE SubSeq(timestamp, 1, (CHOOSE i \in ts : \A j \in ts : i <= j) - 1)

(***************************************************************************)
(* Snapshots: the HTML text as the sequence of its markup elements         *)
(*                                                                         *)
(*   bili_text    <span ... class="nav-statistics__item-text">LABEL</span> *)
(*   bili_num     <span ... class="nav-statistics__item-num" ...           *)
(*                      title="TITLE">TEXT</span>                          *)
(*   douyin_fans  <div ... data-e2e="user-info-fans" ...>   (opening tag)  *)
(*   div          <div ...>TEXT</div>                                      *)
(*   xhs_count    <span class="count" ...>TEXT</span>                      *)
(*   xhs_shows    <span class="shows" ...>LABEL</span>                     *)
(*   other        any other tag or text                                    *)
(*                                                                         *)
(* LABEL is the platform's follower label; FansLabel stands for the label  *)
(* text the Douyin pattern looks for inside a div.                         *)
(***************************************************************************)
El(el, title, text) == [el |-> el, title |-> title, text |-> text]

FansLabel == <<"f", "e", "n", "s", "i">>

BiliText     == El("bili_text", <<>>, <<>>)
BiliNum(title, text) == El("bili_num", title, text)
DouyinFans   == El("douyin_fans", <<>>, <<>>)
Div(text)    == El("div", <<>>, text)
XhsCount(text) == El("xhs_count", <<>>, text)
XhsShows     == El("xhs_shows", <<>>, <<>>)
Other        == El("other", <<>>, <<>>)

\* Optional[int]
NotFound == [found |-> FALSE, value |-> 0]
Found(n) == [found |-> TRUE, value |-> n]

\* the least element of a non-empty set of positions
Least(S) == CHOOSE i \in S : \A j \in S : i <= j

\* extract_bilibili_followers: the label span directly followed by the number
\* span whose title and text are digit runs; int(group(1)) is the title
extract_bilibili_followers(html_content) ==
    LET hits == {i \in 1..(Len(html_content) - 1) :
                    /\ html_content[i] = BiliText
                    /\ html_content[i + 1].el = "bili_num"
                    /\ AllDigits(html_content[i + 1].title)
                    /\ AllDigits(html_content[i + 1].text)}
    IN  IF hits # {} THEN Found(ToInt(html_content[Least(hits) + 1].title))
        ELSE NotFound

\* extract_douyin_followers, re.DOTALL: the fans opening tag, then lazily anything
\* up to a div holding the label, then lazily anything up to a div holding a
\* digit run
extract_douyin_followers(html_content) ==
    LET n        == Len(html_content)
        IsNum(k) == html_content[k].el = "div" /\ AllDigits(html_content[k].text)
        Labels(i) == {j \in (i + 1)..n :
                         /\ html_content[j] = Div(FansLabel)
                         /\ \E k \in (j + 1)..n : IsNum(k)}
        hits     == {i \in 1..n : html_content[i] = DouyinFans /\ Labels(i) # {}}
    IN  IF hits # {}
        THEN LET j == Least(Labels(Least(hits)))
                 k == Least({k \in (j + 1)..n : IsNum(k)})
             IN  Found(ToInt(html_content[k].text))
        ELSE NotFound

\* extract_xiaohongshu_followers: the count span holding a digit run directly
\* followed by the label span
extract_xiaohongshu_followers(html_content) ==
    LET hits == {i \in 1..(Len(html_content) - 1) :
                    /\ html_content[i].el = "xhs_count"
                    /\ AllDigits(html_content[i].text)
                    /\ html_content[i + 1] = XhsShows}
    IN  IF hits # {} THEN Found(ToInt(html_content[Least(hits)].text))
        ELSE NotFound

(***************************************************************************)
(* process_html_file                                                       *)
(***************************************************************************)
Token(platform) ==
    CASE platform = "bilibili" -> <<"b", "i", "l", "i", "b", "i", "l", "i">>
      [] platform = "douyin" -> <<"d", "o", "u", "y", "i", "n">>
      [] platform = "xiaohongshu" ->
             <<"x", "i", "a", "o", "h", "o", "n", "g", "s", "h", "u">>

NoEntry == [platform |-> None]

Return(value) == [raised |-> FALSE, exc |-> None, value |-> value]
Raise(exc)    == [raised |-> TRUE, exc |-> exc, value |-> NoEntry]

\* lines 77-86: the platform named by the file name and what its extractor finds
Dispatch(filename, html_content) ==
    IF Contains(filename, Token("bilibili"))
    THEN [platform |-> "bilibili", followers |-> extract_bilibili_followers(html_content)]
    ELSE IF Contains(filename, Token("douyin"))
    THEN [platform |-> "douyin", followers |-> extract_douyin_followers(html_content)]
    ELSE IF Contains(filename, Token("xiaohongshu"))
    THEN [platform |-> "xiaohongshu",
          followers |-> extract_xiaohongshu_followers(html_content)]
    ELSE [platform |-> None, followers |-> NotFound]

\* the mutation of the test of line 88 that takes a count of 0 for a miss
Extracted_truthy(d) == d.platform # None /\ d.followers.found /\ d.followers.value # 0

\* line 88: platform and followers is not None
Extracted(d) == d.platform # None /\ d.followers.found

\* the mutation of lines 96-98 that returns None instead of raising
CouldNotExtract_skip(name) == Return(NoEntry)

\* lines 96-98
CouldNotExtract(name) == Raise("Exception")

\* process_html_file(html_file), with now = datetime.now()
process_html_file(html_file, now) ==
    LET filename == Lower(html_file.name)
        d        == Dispatch(filename, html_file.content)
    IN  IF Extracted(d)
        THEN LET timestamp == extract_timestamp_from_filename(filename, now)
             IN  IF timestamp.raised THEN Raise(timestamp.value)
                 ELSE Return([platform    |-> d.platform,
                              followers   |-> d.followers.value,
                              timestamp   |-> timestamp.value,
                              source_file |-> html_file.name])
        ELSE CouldNotExtract(html_file.name)

(***************************************************************************)
(* History store: load_existing_data, save_data, append_data               *)
(*                                                                         *)
(* The persisted file is Absent, Malformed (text json.load rejects) or a   *)
(* JSON document, represented by the value it denotes: a mapping           *)
(* date -> (platform -> count).  The order of an object's members is not   *)
(* represented.                                                            *)
(***************************************************************************)
Absent    == [kind |-> "absent", data |-> <<>>]
Malformed == [kind |-> "malformed", data |-> <<>>]
\* the file while a save is under way: truncated by open(..., 'w'), holding the
\* part of the document json.dump has written out so far (a proper prefix)
Partial(data) == [kind |-> "partial", data |-> data]
Truncated == Partial(<<>>)
Json(data) == [kind |-> "json", data |-> data]

EmptyDict == <<>>

\* the mutation of load_existing_data that lets the parse error escape
load_existing_data_reraise(file) ==
    IF file.kind = "absent" THEN [raised |-> FALSE, value |-> EmptyDict]
    ELSE IF file.kind # "json" THEN [raised |-> TRUE, value |-> "JSONDecodeError"]
    ELSE [raised |-> FALSE, value |-> file.data]

\* the mutation of load_existing_data that keeps what a broken file still holds
load_existing_data_lenient(file) ==
    [raised |-> FALSE, value |-> file.data]

\* load_existing_data(): the branch on exists(), then try json.load / except -> {}
load_existing_data(file) ==
    IF file.kind # "absent"
    THEN IF file.kind # "json"
         THEN [raised |-> FALSE, value |-> EmptyDict]
         ELSE [raised |-> FALSE, value |-> file.data]
    ELSE [raised |-> FALSE, value |-> EmptyDict]

\* save_data(data): the file after open(..., 'w') and json.dump have completed
save_data(data) == Json(data)

\* the mutation of the merge that replaces the date's whole dict
MergeEntry_clobber(history, date, platform, followers) ==
    (date :> (platform :> followers)) @@ history

\* lines 136-142: history[date] = {} when missing, then history[date][platform] = followers
MergeEntry(history, date, platform, followers) ==
    LET h1 == IF date \notin DOMAIN history THEN (date :> EmptyDict) @@ history
              ELSE history
    IN  [h1 EXCEPT ![date] = (platform :> followers) @@ @]

\* the mutation of append_data that merges in memory and never saves
append_data_unsaved(file, new_entry) ==
    [raised |-> FALSE, file |-> file, warned |-> FALSE]

\* append_data(new_entry) on the persisted file: the file it leaves, whether the
\* overwrite warning was printed, and whether it raised
append_data(file, new_entry) ==
    LET loaded    == load_existing_data(file)
        history   == loaded.value
        platform  == new_entry.platform
        timestamp == new_entry.timestamp
        followers == new_entry.followers
        date      == SplitT0(timestamp)
    IN  IF loaded.raised
        THEN [raised |-> TRUE, file |-> file, warned |-> FALSE]
        ELSE [raised |-> FALSE,
              file   |-> save_data(MergeEntry(history, date, platform, followers)),
              warned |-> date \in DOMAIN history /\ platform \in DOMAIN history[date]]

(***************************************************************************)
(* display_summary                                                         *)
(***************************************************************************)
TrackedPlatforms == <<"douyin", "bilibili", "xiaohongshu">>

\* sorted(S) for a set of strings
RECURSIVE SortedStrings(_)
SortedStrings(S) ==
    IF S = {} THEN <<>>
    ELSE LET m == CHOOSE x \in S : \A y \in S : y = x \/ StrLess(x, y)
         IN  <<m>> \o SortedStrings(S \ {m})

\* a / b rounded to the nearest integer, a tie to the even one (b > 0)
RoundDiv(a, b) ==
    LET q == a \div b
        r == a % b
    IN  IF 2 * r < b THEN q
        ELSE IF 2 * r > b THEN q + 1
        ELSE IF q % 2 = 0 THEN q ELSE q + 1

\* the mutation of the percentage that divides by the last count
GrowthPct_byLast(first_count, last_count) ==
    IF last_count > 0 THEN RoundDiv((last_count - first_count) * 10000, last_count) ELSE 0

\* growth_pct = (growth / first_count * 100) if first_count > 0 else 0, as the
\* hundredths of a percent that "{growth_pct:+.2f}" prints (the quotient taken
\* exactly; the float quotient prints the same two decimals except possibly at
\* an exact tie)
GrowthPct(first_count, last_count) ==
    IF first_count > 0 THEN RoundDiv((last_count - first_count) * 10000, first_count) ELSE 0

\* the mutation of the growth line's guard and values that follows each
\* platform's own first and last date
GrowthDates_perPlatform(history, sorted_dates, platform) ==
    LET own == SelectSeq(sorted_dates, LAMBDA d : platform \in DOMAIN history[d])
    IN  IF Len(own) = 0 THEN <<>> ELSE <<own[1], own[Len(own)]>>

\* lines 214-218: the two dates a platform's growth line compares, <<>> when the
\* platform gets no line
GrowthDates(history, sorted_dates, platform) ==
    LET first_date == sorted_dates[1]
        last_date  == sorted_dates[Len(sorted_dates)]
    IN  IF platform \in DOMAIN history[first_date] /\ platform \in DOMAIN history[last_date]
        THEN <<first_date, last_date>>
        ELSE <<>>

\* lines 219-223: one line of the growth analysis
GrowthLine(history, dates, platform) ==
    LET first_count == history[dates[1]][platform]
        last_count  == history[dates[2]][platform]
    IN  [platform    |-> platform,
         first_count |-> first_count,
         last_count  |-> last_count,
         growth      |-> last_count - first_count,
         growth_pct  |-> GrowthPct(first_count, last_count)]

\* lines 217-223: the lines of the growth analysis, in the order of the platform list
RECURSIVE GrowthLines(_, _, _)
GrowthLines(history, sorted_dates, i) ==
    IF i > Len(TrackedPlatforms) THEN <<>>
    ELSE LET dates == GrowthDates(history, sorted_dates, TrackedPlatforms[i])
         IN  (IF dates = <<>> THEN <<>>
              ELSE <<GrowthLine(history, dates, TrackedPlatforms[i])>>)
             \o GrowthLines(history, sorted_dates, i + 1)

\* the mutation of display_summary that prints nothing
display_summary_silent(file) == NoOutput

\* display_summary(): what it prints
display_summary(file) ==
    LET loaded       == load_existing_data(file)
        history      == loaded.value
        sorted_dates == SortedStrings(DOMAIN history)
    IN  IF loaded.raised THEN [kind |-> loaded.value]
        ELSE IF history = EmptyDict
        THEN [kind |-> "No data available"]
        ELSE [kind     |-> "SUMMARY",
              total    |-> Len(sorted_dates),
              range    |-> <<sorted_dates[1], sorted_dates[Len(sorted_dates)]>>,
              data     |-> history,
              analysis |-> Len(sorted_dates) > 1,
              growth   |-> IF Len(sorted_dates) > 1
                           THEN GrowthLines(history, sorted_dates, 1)
                           ELSE <<>>]

(***************************************************************************)
(* The history store driven directly: append_data calls, then the summary  *)
(***************************************************************************)
MaxMerges == 3

Platforms == Range(TrackedPlatforms)

SampleCounts == {0, 100, 150}

SampleDays == {12, 13, 14}

SampleTimestamps ==
    {isoformat([year |-> 2025, month |-> 11, day |-> d, hour |-> 10, minute |-> 0,
                second |-> 0, microsecond |-> 0]) : d \in SampleDays}

\* the dicts process_html_file hands to append_data
SampleEntries ==
    [platform : Platforms, followers : SampleCounts, timestamp : SampleTimestamps,
     source_file : {None}]

SampleDate13 == <<"2", "0", "2", "5", "-", "1", "1", "-", "1", "3">>

\* a history file left by an earlier run
EarlierHistory == Json(SampleDate13 :> ("douyin" :> 100))

InitialStores == {Absent, Malformed, Json(EmptyDict), EarlierHistory}

\* (date, platform) of an entry, read off the timestamp's first ten characters
PairOf(entry) == <<SubSeq(entry.timestamp, 1, 10), entry.platform>>

Idle ==
    /\ html_cache = {}
    /\ todo = <<>>
    /\ arg = None
    /\ merged = <<>>
    /\ inst = NoInstances

InitStore ==
    /\ Idle
    /\ output_file \in InitialStores
    /\ store0 = output_file
    /\ pc = "merging"
    /\ processed = 0
    /\ printed = NoOutput
    /\ ret = [raised |-> FALSE, warned |-> FALSE]
    /\ last = <<>>

\* one call of append_data
AppendData ==
    /\ pc = "merging"
    /\ processed < MaxMerges
    /\ \E new_entry \in SampleEntries :
          LET r == append_data(output_file, new_entry)
          IN  /\ output_file' = r.file
              /\ ret' = [raised |-> r.raised, warned |-> r.warned]
              /\ pc' = IF r.raised THEN "raised" ELSE "merging"
              /\ processed' = IF r.raised THEN processed ELSE processed + 1
              /\ last' = IF r.raised THEN last
                         ELSE (PairOf(new_entry) :> new_entry.followers) @@ last
    /\ UNCHANGED <<html_cache, todo, printed, arg, store0, merged, inst>>

\* one call of display_summary, which ends the run
DisplaySummary ==
    /\ pc = "merging"
    /\ printed' = display_summary(output_file)
    /\ pc' = "done"
    /\ UNCHANGED <<html_cache, output_file, todo, processed, arg, ret, store0, merged, last, inst>>

NextStore == AppendData \/ DisplaySummary

SpecStore == InitStore /\ [][NextStore]_vars

(***************************************************************************)
(* The batch driver: process_all_html_files                                *)
(***************************************************************************)
MaxFiles == 3

\* sorted(html_files): Path objects of one directory compare by name
RECURSIVE SortedFiles(_)
SortedFiles(files) ==
    IF files = {} THEN <<>>
    ELSE LET m == CHOOSE f \in files : \A g \in files : g = f \/ StrLess(f.name, g.name)
         IN  <<m>> \o SortedFiles(files \ {m})

\* line 156: list(self.html_cache_dir.glob('*.html')) gives the directory's files
\* in whatever order the file system enumerates them
Enumerations(files) ==
    {s \in [1..Cardinality(files) -> files] : \A i, j \in DOMAIN s : s[i] = s[j] => i = j}

\* the mutation of the loop header that takes the files as enumerated
sorted_asEnumerated(html_files) == html_files

\* line 167: sorted(html_files), a new list in ascending order of name
sorted(html_files) == SortedFiles(Range(html_files))

\* `if entry:` of line 170
Truthy(value) == value # NoEntry

\* datetime.now() at the moment of a fallback
Nows == {[year |-> 2026, month |-> 1, day |-> 5, hour |-> 9, minute |-> 30,
          second |-> 0, microsecond |-> 0],
         [year |-> 2026, month |-> 1, day |-> 6, hour |-> 23, minute |-> 59,
          second |-> 59, microsecond |-> 120]}

\* lines 152-166: with no *.html file the run ends with a message and no summary
\* (a missing directory ends it the same way); otherwise the loop starts
Start ==
    /\ pc = "start"
    /\ IF html_cache = {}
       THEN pc' = "done" /\ todo' = todo
       ELSE /\ pc' = "loop"
            /\ \E html_files \in Enumerations(html_cache) : todo' = sorted(html_files)
    /\ processed' = 0
    /\ UNCHANGED <<html_cache, output_file, printed, arg, ret, store0, merged, last, inst>>

\* lines 167-173: one iteration of the loop; an exception leaves the function
ProcessFile ==
    /\ pc = "loop"
    /\ todo # <<>>
    /\ \E now \in Nows :
          LET html_file == Head(todo)
              entry     == process_html_file(html_file, now)
              saved     == append_data(output_file, entry.value)
          IN  /\ arg' = html_file
              /\ ret' = entry
              /\ todo' = Tail(todo)
              /\ IF entry.raised
                 THEN /\ pc' = "raised"
                      /\ UNCHANGED <<output_file, processed, merged, last>>
                 ELSE IF Truthy(entry.value)
                 THEN IF saved.raised
                      THEN /\ pc' = "raised"
                           /\ UNCHANGED <<output_file, processed, merged, last>>
                      ELSE /\ pc' = "loop"
                           /\ output_file' = saved.file
                           /\ processed' = processed + 1
                           /\ merged' = Append(merged, entry.value)
                           /\ last' = (PairOf(entry.value) :> entry.value.followers) @@ last
                 ELSE /\ pc' = "loop"
                      /\ UNCHANGED <<output_file, processed, merged, last>>
    /\ UNCHANGED <<html_cache, printed, store0, inst>>

\* lines 175-181: the loop is over; display_summary
Finish ==
    /\ pc = "loop"
    /\ todo = <<>>
    /\ printed' = display_summary(output_file)
    /\ pc' = "done"
    /\ UNCHANGED <<html_cache, output_file, todo, processed, arg, ret, store0, merged, last, inst>>

Next == Start \/ ProcessFile \/ Finish

(***************************************************************************)
(* Snapshot files of the runs checked                                      *)
(***************************************************************************)
Ext == <<".", "h", "t", "m", "l">>

Weibo == <<"w", "e", "i", "b", "o">>

\* "Bilibili": the token with a capital first letter
Capital(token) == <<UpperChars[CHOOSE i \in DOMAIN LowerChars : LowerChars[i] = token[1]]>>
                  \o Tail(token)

Date1112 == <<"2", "0", "2", "5", "1", "1", "1", "2">>
Date1113 == <<"2", "0", "2", "5", "1", "1", "1", "3">>
Time100000 == <<"1", "0", "0", "0", "0", "0">>
Time154753 == <<"1", "5", "4", "7", "5", "3">>

FileName(prefix, date, delim, time) ==
    prefix \o <<"_">> \o date \o <<delim>> \o time \o Ext

Digits532  == <<"5", "3", "2">>
Digits321  == <<"3", "2", "1">>
Digits0    == <<"0">>
NotDigits  == <<"1", ".", "2", "w">>

\* a page of the platform carrying the follower markup with the given text
Page(platform, text) ==
    CASE platform = "bilibili" -> <<Other, BiliText, BiliNum(text, text), Other>>
      [] platform = "douyin" -> <<Other, DouyinFans, Div(FansLabel), Div(text), Other>>
      [] platform = "xiaohongshu" -> <<Other, XhsCount(text), XhsShows, Other>>

\* a page whose markup has changed
ChangedPage == <<Other, Other>>

File(name, content) == [name |-> name, content |-> content]

\* snapshots as the monitor saves them: the platform's page under the platform's
\* name, plus pages under a capitalised name and under an unsupported name
PagesOf(p) == {Page(p, Digits532), Page(p, Digits0), ChangedPage}

SampleFiles ==
    UNION {{File(FileName(Token(p), d, "_", Time100000), c) :
               d \in {Date1112, Date1113}, c \in PagesOf(p)} : p \in Platforms}
    \cup {File(FileName(Capital(Token("bilibili")), Date1112, "_", Time154753), c) :
             c \in {Page("bilibili", Digits321), Page("bilibili", Digits0)}}
    \cup {File(FileName(Weibo, Date1113, "_", Time100000), Page("bilibili", Digits532))}

\* the sets of at most k of the files, no two of one name
RECURSIVE Directories(_, _)
Directories(files, k) ==
    IF k = 0 THEN {{}}
    ELSE LET smaller == Directories(files, k - 1)
         IN  smaller \cup
             {x[1] \cup {x[2]} :
                 x \in {y \in smaller \X files : \A h \in y[1] : h.name # y[2].name}}

NoFile == File(<<>>, <<>>)

InitRun(directories, stores) ==
    /\ html_cache \in directories
    /\ output_file \in stores
    /\ store0 = output_file
    /\ pc = "start"
    /\ todo = <<>>
    /\ processed = 0
    /\ printed = NoOutput
    /\ arg = NoFile
    /\ ret = Return(NoEntry)
    /\ merged = <<>>
    /\ last = <<>>
    /\ inst = NoInstances

Init == InitRun(Directories(SampleFiles, MaxFiles), {Absent, Malformed, EarlierHistory})

Spec == Init /\ [][Next]_vars

(***************************************************************************)
(* Properties of the history store                                         *)
(***************************************************************************)
\* the (date, platform) pairs a mapping holds a count for
PairsOf(data) == {x \in (DOMAIN data) \X Platforms : x[2] \in DOMAIN data[x[1]]}

\* the mapping a persisted file denotes to a reader
DataOf(file) == IF file.kind = "json" THEN file.data ELSE EmptyDict

\* the persisted file holds exactly the counts of `want`, a function on pairs
HoldsExactly(file, want) ==
    /\ PairsOf(DataOf(file)) = DOMAIN want
    /\ \A x \in DOMAIN want : DataOf(file)[x[1]][x[2]] = want[x]
    /\ \A d \in DOMAIN DataOf(file) : DOMAIN DataOf(file)[d] # {}

\* a mapping flattened to a function on its pairs
Flat(data) == [x \in PairsOf(data) |-> data[x[1]][x[2]]]

\* C1: after any sequence of append_data calls on an empty store, the store holds
\* for every (date, platform) the count of the most recent merge for that pair and
\* no entry for a pair never merged.
C1_LastMergeWins ==
    (store0 \in {Absent, Json(EmptyDict)} /\ pc \in {"merging", "done"})
        => HoldsExactly(output_file, last)

\* C1 witness: a pair merged twice with different counts, beside another pair
C1_Witness ==
    /\ store0 = Absent
    /\ processed = 3
    /\ Cardinality(DOMAIN last) = 2
    /\ ret.warned
    /\ \E x \in DOMAIN last : last[x] = 150

\* C5: load never raises; on an absent or malformed file it gives the empty
\* mapping, otherwise the persisted mapping.  So a merge on a malformed file
\* succeeds and leaves a well-formed file holding exactly the new entry, and on a
\* well-formed file it keeps the persisted entries it does not overwrite.
C5_LoadRecovers ==
    /\ pc # "raised"
    /\ processed = 0 => output_file = store0
    /\ processed >= 1 =>
          /\ ret.raised = FALSE
          /\ output_file.kind = "json"
          /\ HoldsExactly(output_file, last @@ Flat(DataOf(store0)))

\* C5 witness: one merge done on a malformed file
C5_Witness ==
    /\ store0 = Malformed
    /\ processed = 1
    /\ output_file.kind = "json"
    /\ Cardinality(PairsOf(output_file.data)) = 1

\* the store's earliest and latest date
MinDate(data) == CHOOSE d \in DOMAIN data : \A e \in DOMAIN data : e = d \/ StrLess(d, e)
MaxDate(data) == CHOOSE d \in DOMAIN data : \A e \in DOMAIN data : e = d \/ StrLess(e, d)

\* the dates on which a platform has a value
DatesOf(data, p) == {d \in DOMAIN data : p \in DOMAIN data[d]}
MinDateOf(data, p) ==
    CHOOSE d \in DatesOf(data, p) : \A e \in DatesOf(data, p) : e = d \/ StrLess(d, e)
MaxDateOf(data, p) ==
    CHOOSE d \in DatesOf(data, p) : \A e \in DatesOf(data, p) : e = d \/ StrLess(e, d)

Reported == pc = "done" /\ printed.kind = "SUMMARY"

LinesFor(p) == {i \in DOMAIN printed.growth : printed.growth[i].platform = p}

\* C6 as claimed: every tracked platform with a value on some date gets a growth
\* line comparing its own earliest and latest values.
C6_PerPlatformDates ==
    Reported =>
        \A p \in Platforms :
            DatesOf(printed.data, p) # {} =>
                \E i \in LinesFor(p) :
                    /\ printed.growth[i].first_count =
                           printed.data[MinDateOf(printed.data, p)][p]
                    /\ printed.growth[i].last_count =
                           printed.data[MaxDateOf(printed.data, p)][p]

\* C6 amended: growth lines are printed only for a store of two or more dates, and
\* exactly for the tracked platforms that have a value on both the store's
\* earliest and the store's latest date, comparing the values of those two dates.
C6_StoreWideDates ==
    Reported =>
        LET data == printed.data
            both == {p \in Platforms : /\ Cardinality(DOMAIN data) > 1
                                       /\ p \in DOMAIN data[MinDate(data)]
                                       /\ p \in DOMAIN data[MaxDate(data)]}
        IN  /\ printed.data = DataOf(output_file)
            /\ {printed.growth[i].platform : i \in DOMAIN printed.growth} = both
            /\ \A p \in both :
                  /\ Cardinality(LinesFor(p)) = 1
                  /\ \A i \in LinesFor(p) :
                        /\ printed.growth[i].first_count = data[MinDate(data)][p]
                        /\ printed.growth[i].last_count = data[MaxDate(data)][p]

\* C6 witness: a platform is reported, another has values only on later dates
\* than the store's earliest and is left out
C6_Witness ==
    /\ Reported
    /\ Len(printed.growth) = 1
    /\ \E p \in Platforms :
          /\ LinesFor(p) = {}
          /\ Cardinality(DatesOf(printed.data, p)) = 2
          /\ MinDateOf(printed.data, p) # MinDate(printed.data)

\* C7: a growth line's change is last - first and its percentage is that change
\* over the first value times 100 (to the two decimals printed); a first value of
\* 0 gives 0 percent for every last value, and the line is still printed.
C7_GrowthArithmetic ==
    Reported =>
        /\ \A i \in DOMAIN printed.growth :
              LET l == printed.growth[i]
              IN  /\ l.first_count = printed.data[printed.range[1]][l.platform]
                  /\ l.last_count = printed.data[printed.range[2]][l.platform]
                  /\ l.growth = l.last_count - l.first_count
                  /\ l.first_count = 0 => l.growth_pct = 0
                  /\ l.first_count > 0 =>
                        /\ 2 * (l.growth_pct * l.first_count - l.growth * 10000)
                               <= l.first_count
                        /\ 2 * (l.growth * 10000 - l.growth_pct * l.first_count)
                               <= l.first_count
                  /\ (l.first_count = 100 /\ l.last_count = 150) =>
                        (l.growth = 50 /\ l.growth_pct = 5000)
        /\ \A p \in Platforms :
              (/\ printed.analysis
               /\ p \in DOMAIN printed.data[printed.range[1]]
               /\ p \in DOMAIN printed.data[printed.range[2]]
               /\ printed.data[printed.range[1]][p] = 0)
                  => \E i \in LinesFor(p) : printed.growth[i].growth_pct = 0

\* C7 witness: a line printed for a platform that went from 0 to 150
C7_Witness ==
    /\ Reported
    /\ \E i \in DOMAIN printed.growth :
          /\ printed.growth[i].first_count = 0
          /\ printed.growth[i].last_count = 150
          /\ printed.growth[i].growth_pct = 0

(***************************************************************************)
(* Properties of a batch run                                               *)
(***************************************************************************)
\* the processing order, and how many of its files the loop has taken
Order == SortedFiles(html_cache)
Started == IF pc = "start" THEN 0 ELSE Len(Order) - Len(todo)

\* the platform whose token the lower-cased name carries, by the order of the tests
NamedPlatform(name) ==
    IF Contains(Lower(name), Token("bilibili")) THEN "bilibili"
    ELSE IF Contains(Lower(name), Token("douyin")) THEN "douyin"
    ELSE IF Contains(Lower(name), Token("xiaohongshu")) THEN "xiaohongshu"
    ELSE None

\* the platform's extractor
Extract(platform, html_content) ==
    CASE platform = "bilibili" -> extract_bilibili_followers(html_content)
      [] platform = "douyin" -> extract_douyin_followers(html_content)
      [] platform = "xiaohongshu" -> extract_xiaohongshu_followers(html_content)

\* no recognised platform token in the name, or extraction returns not-found
BadFile(f) ==
    \/ NamedPlatform(f.name) = None
    \/ ~Extract(NamedPlatform(f.name), f.content).found

\* the counts a sequence of merges leaves, the later merge of a pair winning
RECURSIVE FoldLast(_)
FoldLast(entries) ==
    IF entries = <<>> THEN <<>>
    ELSE LET e == entries[Len(entries)]
         IN  (PairOf(e) :> e.followers) @@ FoldLast(SubSeq(entries, 1, Len(entries) - 1))

\* C2: a file with no platform token, or whose extraction returns not-found,
\* aborts the run at that file: nothing of it is merged, and no later file is
\* read or merged.
C2_FailFast ==
    LET order == Order
        n     == IF pc = "start" THEN 0 ELSE Len(order) - Len(todo)
    IN  \A i \in 1..n :
            BadFile(order[i]) =>
                /\ pc = "raised"
                /\ ret.raised /\ ret.exc = "Exception"
                /\ i = n
                /\ arg = order[i]
                /\ ~ENABLED Next
                /\ processed = i - 1
                /\ \A k \in DOMAIN merged : merged[k].source_file # order[i].name
                /\ HoldsExactly(output_file, FoldLast(merged) @@ Flat(DataOf(store0)))

\* C2 witness: the run has aborted at a bad file with a later file left unread
C2_Witness ==
    /\ pc = "raised"
    /\ BadFile(arg)
    /\ processed = 1
    /\ todo # <<>>

\* C3: between two files the persisted store already holds every processed
\* file's entry; after an abort at the k-th file it is the initial store with
\* the merges of exactly the k-1 preceding files.
C3_WriteThrough ==
    pc \in {"loop", "raised", "done"} =>
        LET order == Order
            n     == Len(order) - Len(todo)
        IN  /\ Len(merged) = processed
            /\ \A i \in DOMAIN merged : merged[i].source_file = order[i].name
            /\ pc = "raised" => n = Len(merged) + 1
            /\ pc # "raised" => n = Len(merged)
            /\ IF merged = <<>> THEN output_file = store0
               ELSE /\ output_file.kind = "json"
                    /\ HoldsExactly(output_file, FoldLast(merged) @@ Flat(DataOf(store0)))

\* C3 witness: an abort at the third file, the two merges before it persisted
C3_Witness ==
    /\ pc = "raised"
    /\ Started = 3
    /\ Len(merged) = 2
    /\ output_file # store0
    /\ Cardinality(PairsOf(DataOf(output_file))) = 3

\* C4 as claimed: every run over at least one file ends with the summary
\* printed, whether it processed all files or aborted.
C4_SummaryAlways ==
    (pc \in {"done", "raised"} /\ html_cache # {}) => printed.kind = "SUMMARY"

\* C4 amended: a run over at least one file prints the summary of the store
\* when all its files were processed; a run that aborts prints no summary.
C4_SummaryOnCompletion ==
    /\ (pc = "done" /\ html_cache # {}) =>
          /\ processed = Cardinality(html_cache)
          /\ printed.kind = "SUMMARY"
          /\ printed.data = DataOf(output_file)
    /\ pc = "raised" => printed = NoOutput

\* C4 witness: an abort after a file was processed, nothing printed
C4_Witness ==
    /\ pc = "raised"
    /\ processed >= 1
    /\ printed = NoOutput

\* a snapshot of the platform its name carries whose follower digits are "0"
ZeroSnapshot(f) ==
    /\ NamedPlatform(f.name) # None
    /\ f.content = Page(NamedPlatform(f.name), Digits0)

\* a snapshot of the platform its name carries with the follower markup intact
IntactSnapshot(f) ==
    /\ NamedPlatform(f.name) # None
    /\ \E text \in {Digits0, Digits321, Digits532} :
          f.content = Page(NamedPlatform(f.name), text)

\* C8: a count of 0 is extracted as 0, does not abort the run and is merged as
\* the value 0 of its (date, platform); a snapshot with the markup intact is
\* never a miss.
C8_ZeroIsACount ==
    LET order == Order
        n     == IF pc = "start" THEN 0 ELSE Len(order) - Len(todo)
    IN  \A i \in 1..n :
            /\ ZeroSnapshot(order[i]) =>
                  /\ Extract(NamedPlatform(order[i].name), order[i].content) = Found(0)
                  /\ i <= Len(merged)
                  /\ merged[i].source_file = order[i].name
                  /\ merged[i].platform = NamedPlatform(order[i].name)
                  /\ merged[i].followers = 0
                  /\ i = Len(merged) =>
                        DataOf(output_file)[PairOf(merged[i])[1]][merged[i].platform] = 0
            /\ IntactSnapshot(order[i]) => ~(arg = order[i] /\ pc = "raised")

\* C8 witness: three snapshots of count 0, one per platform, all merged
C8_Witness ==
    /\ pc = "done"
    /\ processed = 3
    /\ {merged[i].platform : i \in DOMAIN merged} = Platforms
    /\ \A i \in DOMAIN merged : merged[i].followers = 0
    /\ \A f \in html_cache : ZeroSnapshot(f)

(***************************************************************************)
(* Runs over one snapshot, for the pattern extractors                      *)
(***************************************************************************)
MaxDocLen == 4

\* the elements a platform's pattern looks at, and any other markup
ElementsOf(platform) ==
    CASE platform = "bilibili" ->
             {Other, BiliText, BiliNum(Digits532, Digits532),
              BiliNum(Digits532, NotDigits), BiliNum(NotDigits, Digits321)}
      [] platform = "douyin" ->
             {Other, DouyinFans, Div(FansLabel), Div(Digits532), Div(Digits321),
              Div(NotDigits)}
      [] platform = "xiaohongshu" ->
             {Other, XhsCount(Digits532), XhsCount(NotDigits), XhsShows}

\* the sequences of at most n of the elements
RECURSIVE Docs(_, _)
Docs(elements, n) ==
    IF n = 0 THEN {<<>>}
    ELSE LET shorter == Docs(elements, n - 1)
         IN  shorter \cup {Append(x[1], x[2]) : x \in shorter \X elements}

ExtractFiles ==
    UNION {{File(FileName(Token(p), Date1112, "_", Time100000), doc) :
               doc \in Docs(ElementsOf(p), MaxDocLen)} : p \in Platforms}

InitExtract == InitRun({{f} : f \in ExtractFiles}, {Absent})

SpecExtract == InitExtract /\ [][Next]_vars

\* the platform's structural pattern: the follower label element directly
\* paired with the follower-count digit element; the positions of the digit
\* element of each such pairing
Pairings(platform, doc) ==
    CASE platform = "bilibili" ->
             {i \in 2..Len(doc) :
                 /\ doc[i - 1] = BiliText
                 /\ doc[i].el = "bili_num"
                 /\ AllDigits(doc[i].title) /\ AllDigits(doc[i].text)}
      [] platform = "douyin" ->
             {i \in 3..Len(doc) :
                 /\ doc[i - 2] = DouyinFans
                 /\ doc[i - 1] = Div(FansLabel)
                 /\ doc[i].el = "div" /\ AllDigits(doc[i].text)}
      [] platform = "xiaohongshu" ->
             {i \in 1..(Len(doc) - 1) :
                 /\ doc[i].el = "xhs_count" /\ AllDigits(doc[i].text)
                 /\ doc[i + 1] = XhsShows}

\* the number a pairing's digit element shows
PairedNumber(platform, doc, i) ==
    IF platform = "bilibili" THEN ToInt(doc[i].title) ELSE ToInt(doc[i].text)

\* C9 as claimed: for every platform, a snapshot without the structural pattern
\* is a miss, and a number returned is the number of a label/count pairing.
C9_MissNotWrongData ==
    (pc # "start" /\ arg # NoFile) =>
        LET platform == NamedPlatform(arg.name)
            doc      == arg.content
        IN  /\ Pairings(platform, doc) = {} => (ret.raised /\ ret.exc = "Exception")
            /\ ~ret.raised =>
                  \E i \in Pairings(platform, doc) :
                      ret.value.followers = PairedNumber(platform, doc, i)

(***************************************************************************)
(* Runs over one snapshot, for the file name's timestamp                   *)
(***************************************************************************)
Date0229Leap == <<"2", "0", "2", "4", "0", "2", "2", "9">>
Date0229     == <<"2", "0", "2", "5", "0", "2", "2", "9">>
Date1399     == <<"2", "0", "2", "5", "1", "3", "9", "9">>
Time000000   == <<"0", "0", "0", "0", "0", "0">>
Time240000   == <<"2", "4", "0", "0", "0", "0">>
Time235960   == <<"2", "3", "5", "9", "6", "0">>

StampDates  == {Date1112, Date0229Leap, Date0229, Date1399}
StampDelims == {"_", "-", "."}
StampTimes  == {Time154753, Time000000, Time240000, Time235960}

\* names with a date run and a time run around one delimiter, names whose runs
\* are longer or shorter than 8 and 6 digits, and a name with no digits
TimestampNames ==
    {FileName(Token("bilibili"), d, c, t) :
        d \in StampDates, c \in StampDelims, t \in StampTimes}
    \cup {FileName(Token("bilibili"), <<"1">> \o Date1112, "_", Time154753),
          FileName(Token("bilibili"), Tail(Date1112), "_", Time154753),
          FileName(Token("bilibili"), Date1112, "_", Time154753 \o <<"9">>),
          FileName(Token("bilibili"), Date1112, "_", Tail(Time154753)),
          Token("bilibili") \o Ext}

InitTimestamp ==
    InitRun({{File(name, Page("bilibili", Digits532))} : name \in TimestampNames},
            {Absent})

SpecTimestamp == InitTimestamp /\ [][Next]_vars

\* 8 digits, one character c, 6 digits at position i of s
StampAt(s, i, c) ==
    /\ i + 14 <= Len(s)
    /\ \A k \in 0..7 : IsDigit(s[i + k])
    /\ s[i + 8] = c
    /\ \A k \in 9..14 : IsDigit(s[i + k])

\* the digits at position i read as YYYYMMDD?HHMMSS name a date and a time of day
ValidStamp(s, i) ==
    LET y  == ToInt(SubSeq(s, i, i + 3))
        mo == ToInt(SubSeq(s, i + 4, i + 5))
        d  == ToInt(SubSeq(s, i + 6, i + 7))
    IN  /\ y >= 1 /\ mo >= 1 /\ mo <= 12 /\ d >= 1 /\ d <= DaysInMonth(y, mo)
        /\ ToInt(SubSeq(s, i + 9, i + 10)) < 24
        /\ ToInt(SubSeq(s, i + 11, i + 12)) < 60
        /\ ToInt(SubSeq(s, i + 13, i + 14)) < 60

\* YYYY-MM-DD and YYYY-MM-DDTHH:MM:SS spelled with the digits at position i
StampDate(s, i) ==
    SubSeq(s, i, i + 3) \o <<"-">> \o SubSeq(s, i + 4, i + 5) \o <<"-">>
    \o SubSeq(s, i + 6, i + 7)
StampIso(s, i) ==
    StampDate(s, i) \o <<"T">> \o SubSeq(s, i + 9, i + 10) \o <<":">>
    \o SubSeq(s, i + 11, i + 12) \o <<":">> \o SubSeq(s, i + 13, i + 14)

\* the file was merged under this date and nothing else was
MergedUnder(date) ==
    /\ pc \in {"loop", "done"}
    /\ DOMAIN DataOf(output_file) = {date}

\* the wall-clock dates a fallback may give
NowDates == {SubSeq(isoformat(now), 1, 10) : now \in Nows}

Parsed == pc \in {"loop", "raised", "done"} /\ arg # NoFile

\* C10 as claimed: a name with a valid 8-digit date, any one non-digit
\* delimiter and a valid 6-digit time gives the timestamp the digits encode,
\* and the snapshot is merged under that date.
C10_AnyDelimiter ==
    Parsed =>
        \A i \in 1..Len(arg.name) :
            (/\ \E c \in StampDelims : StampAt(arg.name, i, c)
             /\ ValidStamp(arg.name, i))
                => /\ ~ret.raised
                   /\ ret.value.timestamp = StampIso(arg.name, i)
                   /\ MergedUnder(StampDate(arg.name, i))

\* C10 amended: the parser reads the leftmost occurrence of 8 digits, an
\* underscore, 6 digits.  When its digits name a date and a time of day the
\* timestamp is the one they encode and the snapshot is merged under that date;
\* when they do not, the parser raises ValueError and the run aborts.  A name
\* with no such occurrence, also one whose runs are joined by another
\* delimiter, gets the current wall-clock time.
C10_UnderscoreOnly ==
    Parsed =>
        LET s    == arg.name
            hits == {i \in 1..Len(s) : StampAt(s, i, "_")}
        IN  IF hits = {}
            THEN /\ ~ret.raised
                 /\ ret.value.timestamp \in {isoformat(now) : now \in Nows}
                 /\ \E date \in NowDates :
                       /\ date = SubSeq(ret.value.timestamp, 1, 10)
                       /\ MergedUnder(date)
            ELSE LET i == CHOOSE i \in hits : \A j \in hits : i <= j
                 IN  IF ValidStamp(s, i)
                     THEN /\ ~ret.raised
                          /\ ret.value.timestamp = StampIso(s, i)
                          /\ MergedUnder(StampDate(s, i))
                     ELSE /\ ret.raised /\ ret.exc = "ValueError"
                          /\ pc = "raised"
                          /\ output_file = store0

\* C10 witness: a valid date and time joined by "-" fell back to the wall clock
C10_Witness ==
    /\ Parsed
    /\ StampAt(arg.name, 10, "-")
    /\ ValidStamp(arg.name, 10)
    /\ ~ret.raised
    /\ ret.value.timestamp # StampIso(arg.name, 10)
    /\ \E date \in NowDates : MergedUnder(date)

(***************************************************************************)
(* append_data step by step: load, merge in memory, open(..., 'w'), write  *)
(* out, close.  Each running DataExtractor instance has its own locals;    *)
(* the history file is the only thing instances share, and no step takes   *)
(* a lock on it.                                                           *)
(***************************************************************************)
MaxCalls == 3

Instances == {1, 2}

Nows12 == [year |-> 2025, month |-> 11, day |-> 12, hour |-> 10, minute |-> 0,
           second |-> 0, microsecond |-> 0]

\* the entries the instances' append_data calls are given
RaceEntries ==
    {e \in SampleEntries : /\ e.platform \in {"douyin", "bilibili"}
                           /\ e.followers \in {100, 150}
                           /\ e.timestamp = isoformat(Nows12)}

NoCall == [platform |-> None]

\* the append_data calls begun so far, over all instances
Calls == inst[1].calls + inst[2].calls

\* an instance before its first append_data call
Fresh == [pc |-> "idle", history |-> EmptyDict, new_entry |-> NoCall,
          written |-> EmptyDict, calls |-> 0]

\* the mutation of the in-memory merge that starts from an empty dict
merge_loaded_fresh(history, new_entry) ==
    MergeEntry(EmptyDict, SplitT0(new_entry.timestamp), new_entry.platform,
               new_entry.followers)

\* lines 122-142: the local `history` after the loaded mapping took the entry
merge_loaded(history, new_entry) ==
    MergeEntry(history, SplitT0(new_entry.timestamp), new_entry.platform,
               new_entry.followers)

\* the non-empty proper parts of a document that a flush of the write buffer can
\* have put on disk before the document is complete (whole dates)
Prefixes(data) ==
    {[d \in D |-> data[d]] : D \in (SUBSET DOMAIN data) \ {{}, DOMAIN data}}

\* what a write through this instance's handle leaves: the handle writes at its
\* own offset, so when the file no longer holds what the handle wrote so far
\* (another handle truncated or wrote it), the bytes on disk are this handle's
\* view or a mixture of both that does not parse, depending on the lengths
WriteOutcomes(file, written, result) ==
    IF file = Partial(written) THEN {result} ELSE {result, Malformed}

\* line 122: history = self.load_existing_data(), then the merge in memory
Load(i) ==
    /\ pc = "running"
    /\ inst[i].pc = "idle"
    /\ Calls < MaxCalls
    /\ \E new_entry \in RaceEntries :
          LET loaded == load_existing_data(output_file)
          IN  /\ ~loaded.raised
              /\ inst' = [inst EXCEPT ![i] =
                            [pc |-> "merged",
                             history |-> merge_loaded(loaded.value, new_entry),
                             new_entry |-> new_entry,
                             written |-> EmptyDict,
                             calls |-> @.calls + 1]]
    /\ UNCHANGED <<html_cache, output_file, pc, todo, processed, printed, arg, ret,
                   store0, merged, last>>

\* line 116: open(self.output_file, 'w') truncates the file
SaveOpen(i) ==
    /\ pc = "running"
    /\ inst[i].pc = "merged"
    /\ output_file' = Truncated
    /\ inst' = [inst EXCEPT ![i].pc = "writing"]
    /\ UNCHANGED <<html_cache, pc, todo, processed, printed, arg, ret, store0,
                   merged, last>>

\* line 117: json.dump fills the write buffer; a full buffer is flushed to the
\* file before the document is complete
SaveFlush(i) ==
    /\ pc = "running"
    /\ inst[i].pc = "writing"
    /\ inst[i].written = EmptyDict
    /\ \E part \in Prefixes(inst[i].history) :
          /\ output_file' \in WriteOutcomes(output_file, inst[i].written, Partial(part))
          /\ inst' = [inst EXCEPT ![i].written = part]
    /\ UNCHANGED <<html_cache, pc, todo, processed, printed, arg, ret, store0,
                   merged, last>>

\* lines 116-118: the end of the with block writes the rest and closes the file;
\* append_data returns
SaveClose(i) ==
    /\ pc = "running"
    /\ inst[i].pc = "writing"
    /\ output_file' \in WriteOutcomes(output_file, inst[i].written,
                                      save_data(inst[i].history))
    /\ inst' = [inst EXCEPT ![i].pc = "idle"]
    /\ merged' = Append(merged, inst[i].new_entry)
    /\ last' = (PairOf(inst[i].new_entry) :> inst[i].new_entry.followers) @@ last
    /\ UNCHANGED <<html_cache, pc, todo, processed, printed, arg, ret, store0>>

InitRace ==
    /\ html_cache = {}
    /\ todo = <<>>
    /\ arg = None
    /\ merged = <<>>
    /\ output_file \in {Absent, EarlierHistory}
    /\ store0 = output_file
    /\ pc = "running"
    /\ processed = 0
    /\ printed = NoOutput
    /\ ret = [raised |-> FALSE, warned |-> FALSE]
    /\ last = <<>>
    /\ inst = [i \in Instances |-> Fresh]

NextRace == \E i \in Instances : Load(i) \/ SaveOpen(i) \/ SaveFlush(i) \/ SaveClose(i)

SpecRace == InitRace /\ [][NextRace]_vars

\* no append_data call of instance i is between its open(..., 'w') and its close
Settled(i) == inst[i].pc \in {"idle", "merged"}

\* C11: append_data reads the file, merges in memory and writes the file back with
\* no lock held in between.  While only one instance has called append_data,
\* the file it leaves after each call holds every entry merged so far (the most
\* recent count per (date, platform)) on top of what the file held before.  With
\* two instances a file that parses always holds the entry saved last, but
\* nothing guarantees the entries saved before it (see C11_Witness).
C11_UnlockedReadModifyWrite ==
    /\ \A i \in Instances :
          ((\A j \in Instances \ {i} : inst[j] = Fresh) /\ Settled(i))
              => HoldsExactly(output_file, FoldLast(merged) @@ Flat(DataOf(store0)))
    /\ (merged # <<>> /\ output_file.kind = "json")
          => LET e == merged[Len(merged)]
             IN  /\ PairOf(e) \in PairsOf(output_file.data)
                 /\ output_file.data[PairOf(e)[1]][PairOf(e)[2]] = e.followers

\* C11 witness (lost update): each instance has merged and saved one entry, for
\* different (date, platform) pairs, both calls have returned, the file parses,
\* and the entry saved first is not in it
C11_Witness ==
    /\ inst[1].calls = 1 /\ inst[2].calls = 1
    /\ inst[1].pc = "idle" /\ inst[2].pc = "idle"
    /\ Len(merged) = 2
    /\ PairOf(merged[1]) # PairOf(merged[2])
    /\ output_file.kind = "json"
    /\ PairOf(merged[1]) \notin PairsOf(output_file.data)
    /\ PairOf(merged[2]) \in PairsOf(output_file.data)

\* reached as well: one instance alone has made two calls on an earlier history
C11_WitnessAlone ==
    /\ inst[2] = Fresh
    /\ inst[1].calls = 2 /\ inst[1].pc = "idle"
    /\ store0 = EarlierHistory
    /\ Cardinality(PairsOf(DataOf(output_file))) = 3

(***************************************************************************)
(* A save cut short: the process of instance 1 is killed between the       *)
(* open(..., 'w') and the close of save_data; instance 2 is the next run   *)
(* on the same history file.                                               *)
(***************************************************************************)
\* the process dies inside the with block of save_data: what is on disk stays
Crash(i) ==
    /\ pc = "running"
    /\ inst[i].pc = "writing"
    /\ inst' = [inst EXCEPT ![i].pc = "crashed"]
    /\ UNCHANGED <<html_cache, output_file, pc, todo, processed, printed, arg, ret,
                   store0, merged, last>>

\* the next run starts once the first is dead
NextRun ==
    /\ inst[1].pc = "crashed"
    /\ Load(2) \/ SaveOpen(2) \/ SaveFlush(2) \/ SaveClose(2)

NextCrash ==
    \/ Load(1) \/ SaveOpen(1) \/ SaveFlush(1) \/ SaveClose(1)
    \/ Crash(1)
    \/ NextRun

SpecCrash == InitRace /\ [][NextCrash]_vars

\* C12: save_data truncates the file and writes it in place.  From the open to
\* the close the file holds nothing or a proper part of the document; if the
\* process dies there the file stays so.  The next load of such a file does not
\* raise and gives the empty mapping, so the following merge starts from {} and
\* its save leaves a well-formed file holding exactly the new entry.
C12_InterruptedSave ==
    /\ (inst[1].pc \in {"writing", "crashed"} /\ inst[2] = Fresh) =>
          /\ output_file \in {Truncated} \cup {Partial(part) : part \in Prefixes(inst[1].history)}
          /\ load_existing_data(output_file) = [raised |-> FALSE, value |-> EmptyDict]
    /\ (inst[1].pc = "crashed" /\ inst[2].calls = 1) =>
          LET e == inst[2].new_entry
          IN  /\ inst[2].history = merge_loaded(EmptyDict, e)
              /\ inst[2].pc = "idle" =>
                    /\ output_file.kind = "json"
                    /\ HoldsExactly(output_file, PairOf(e) :> e.followers)

\* C12 witness: the first run died after part of the document was on disk, and
\* the next run has merged and saved one entry
C12_Witness ==
    /\ inst[1].pc = "crashed"
    /\ inst[1].written # EmptyDict
    /\ inst[2].calls = 1 /\ inst[2].pc = "idle"
    /\ output_file.kind = "json"
    /\ Cardinality(PairsOf(output_file.data)) = 1
    /\ Cardinality(PairsOf(inst[1].history)) > 1

(***************************************************************************)
(* Order of the batch                                                      *)
(***************************************************************************)
\* the merged entries that fall on a (date, platform) pair, by position
MappedTo(x) == {i \in DOMAIN merged : PairOf(merged[i]) = x}

\* of those, the one whose source file has the greatest name
GreatestNamed(x) ==
    CHOOSE i \in MappedTo(x) :
        \A j \in MappedTo(x) : j = i \/ StrLess(merged[j].source_file, merged[i].source_file)

\* C13: whatever order the directory is enumerated in, files are started in
\* ascending order of name (by code point), each one extracted, merged and saved
\* before the next is started; so after a run that completes, every
\* (date, platform) that files map to holds the count of the file with the
\* greatest name among them.
C13_NameOrder ==
    pc \in {"loop", "raised", "done"} =>
        /\ \A i, j \in DOMAIN merged :
              i < j => StrLess(merged[i].source_file, merged[j].source_file)
        /\ \A i, j \in DOMAIN todo : i < j => StrLess(todo[i].name, todo[j].name)
        /\ \A f \in Range(todo) :
              /\ StrLess(arg.name, f.name)
              /\ \A i \in DOMAIN merged : merged[i].source_file # f.name
        /\ pc = "loop" =>
              /\ merged # <<>> => merged[Len(merged)].source_file = arg.name
              /\ {f.name : f \in html_cache} =
                    {merged[i].source_file : i \in DOMAIN merged}
                        \cup {f.name : f \in Range(todo)}
        /\ (pc = "done" /\ html_cache # {}) =>
              /\ {merged[i].source_file : i \in DOMAIN merged} = {f.name : f \in html_cache}
              /\ \A i \in DOMAIN merged :
                    LET x == PairOf(merged[i])
                    IN  /\ x \in PairsOf(DataOf(output_file))
                        /\ DataOf(output_file)[x[1]][x[2]] = merged[GreatestNamed(x)].followers

\* C13 witness: a completed run in which two files map to one (date, platform)
\* with different counts; the store holds the count of the greater name, which
\* here carries the earlier time of day ("B" sorts before "b")
C13_Witness ==
    /\ pc = "done"
    /\ \E i, j \in DOMAIN merged :
          /\ i < j
          /\ PairOf(merged[i]) = PairOf(merged[j])
          /\ merged[i].followers # merged[j].followers
          /\ StrLess(merged[j].timestamp, merged[i].timestamp)
          /\ LET x == PairOf(merged[j])
             IN  DataOf(output_file)[x[1]][x[2]] = merged[j].followers

=============================================================================
